---- MODULE Spec2Model ----
(***************************************************************************)
(* A model of the blog platform's post and comment stores and of the       *)
(* request handlers of src/routes/posts.js and src/routes/comments.js,     *)
(* with the Mongoose schemas of src/unnamed/part_001 (Post) and            *)
(* src/models/Comment.js (Comment), and of the browser client of           *)
(* src/unnamed/part_000: its login state and its search box.               *)
(*                                                                         *)
(* Strings are sequences of one-character strings.  Documents are records; *)
(* a collection is a function from the ids of its stored documents, and a  *)
(* request body is a record of the fields it carries.                      *)
(***************************************************************************)
EXTENDS Integers, Sequences, FiniteSets, TLC

\* ------------------------------------------------------------------ bounds
NumUsers == 2
MaxPosts == 2
MaxComments == 3
MaxReqs == 2
MaxLikes == 4
\* the smaller stores of the specifications about likes and derived fields
FewPosts == 1
FewComments == 1
\* the pages and limits a listing is asked for
MaxPage == 3
MaxLimit == 2
\* the browser client: requests in flight, searches, the clock and its step
MaxPending == 3
MaxSearches == 3
MaxTime == 2000
TickMs == 250

\* ------------------------------------------------- constants of the program
ExcerptLen == 150
WordsPerMinute == 200
MinContentLen == 10
MaxTitleLen == 200
MaxCommentLen == 1000
MaxExcerptLen == 300
\* the page and limit of a listing whose query names none
DefaultPage == 1
DefaultLimit == 10
DefaultCommentLimit == 20
\* the delay of the search box's timer, in milliseconds
DebounceMs == 500

NoParent == 0

\* an id that is no ObjectId (such as "abc"): findById cannot cast it
BadId == -1

Users == 1 .. NumUsers
PostIds == 1 .. MaxPosts
CommentIds == 1 .. MaxComments
Slots == 1 .. MaxReqs

\* ----------------------------------------------------------------- strings
\* n copies of s
Rep(s, n) == [i \in 1 .. (n * Len(s)) |-> s[((i - 1) % Len(s)) + 1]]

\* n one-letter words joined by the separator sep
Words(n, sep) == IF n = 0 THEN << >> ELSE <<"a">> \o Rep(sep \o <<"a">>, n - 1)

Ellipsis == <<".", ".", ".">>

IsSpace(ch) == ch \in {" ", "\n", "\t"}

\* String.prototype.substring(0, n)
Substring0(s, n) == SubSeq(s, 1, IF Len(s) < n THEN Len(s) ELSE n)

\* String.prototype.split(' ').length : one more than the number of ' '
SplitLen(s) == 1 + Cardinality({i \in DOMAIN s : s[i] = " "})

\* Math.ceil(n / d) for n >= 0, d > 0
CeilDiv(n, d) == (n + d - 1) \div d

\* The number of words of a text: its maximal runs of non-blank characters.
WordCount(s) ==
    Cardinality({i \in DOMAIN s : ~IsSpace(s[i]) /\ (i = 1 \/ IsSpace(s[i - 1]))})

\* String.prototype.trim, the setter of a schema path declared trim: true
Trim(s) ==
    LET inked == {i \in DOMAIN s : ~IsSpace(s[i])}
    IN  IF inked = {} THEN << >>
        ELSE SubSeq(s, CHOOSE i \in inked : \A j \in inked : i <= j,
                       CHOOSE i \in inked : \A j \in inked : i >= j)

\* The decimal digits; a query parameter arrives as a string of them.
Digits == <<"0", "1", "2", "3", "4", "5", "6", "7", "8", "9">>

IsDigit(ch) == \E i \in DOMAIN Digits : Digits[i] = ch

DigitValue(ch) == (CHOOSE i \in DOMAIN Digits : Digits[i] = ch) - 1

\* the value of a string of digits, 0 for the empty string
RECURSIVE DigitsValue(_)
DigitsValue(s) ==
    IF s = << >> THEN 0
    ELSE 10 * DigitsValue(SubSeq(s, 1, Len(s) - 1)) + DigitValue(s[Len(s)])

\* String(n) for 0 <= n < 100, as a client writes a number into a query
Decimal(n) ==
    IF n < 10 THEN <<Digits[n + 1]>>
    ELSE <<Digits[(n \div 10) + 1], Digits[(n % 10) + 1]>>

\* parseInt(s) of a string that starts with a digit: the value of its
\* longest prefix of digits
ParseInt(s) ==
    LET stops == {i \in DOMAIN s : ~IsDigit(s[i])}
        end == IF stops = {} THEN Len(s)
               ELSE (CHOOSE i \in stops : \A j \in stops : i <= j) - 1
    IN  DigitsValue(SubSeq(s, 1, end))

\* the number a string of digits is coerced to by - , * and /
ToNumber(s) == DigitsValue(s)

\* the letters, for matching without regard to case
Uppers == <<"A", "B", "C", "D", "E", "F", "G", "H", "I", "J", "K", "L", "M",
            "N", "O", "P", "Q", "R", "S", "T", "U", "V", "W", "X", "Y", "Z">>
Lowers == <<"a", "b", "c", "d", "e", "f", "g", "h", "i", "j", "k", "l", "m",
            "n", "o", "p", "q", "r", "s", "t", "u", "v", "w", "x", "y", "z">>

Lower(ch) ==
    IF \E i \in DOMAIN Uppers : Uppers[i] = ch
    THEN Lowers[CHOOSE i \in DOMAIN Uppers : Uppers[i] = ch]
    ELSE ch

\* { $regex: pat, $options: 'i' } for a pattern of letters, digits, blanks
\* and the metacharacter "." (any character but a line break): the pattern
\* matches somewhere in the text
RegexMatchesAt(pat, text, at) ==
    \A i \in DOMAIN pat :
       IF pat[i] = "." THEN text[at + i] # "\n"
       ELSE Lower(pat[i]) = Lower(text[at + i])

RegexTest(pat, text) ==
    \E at \in 0 .. (Len(text) - Len(pat)) : RegexMatchesAt(pat, text, at)

IsPrefix(a, b) == Len(a) <= Len(b) /\ SubSeq(b, 1, Len(a)) = a

\* ------------------------------------------------------------ array helpers
\* Array.prototype.indexOf, 1-based, 0 for "not found" (-1 in the code)
IndexOf(arr, x) ==
    IF \E i \in DOMAIN arr : arr[i] = x
    THEN CHOOSE i \in DOMAIN arr : arr[i] = x /\ \A j \in 1 .. (i - 1) : arr[j] # x
    ELSE 0

\* arr.splice(i, 1) for a 1-based i
Splice1(arr, i) == SubSeq(arr, 1, i - 1) \o SubSeq(arr, i + 1, Len(arr))

Member(arr, x) == \E i \in DOMAIN arr : arr[i] = x

Occurrences(arr, x) == Cardinality({i \in DOMAIN arr : arr[i] = x})

\* ----------------------------------------------------------------- schemas
\* postSchema: the defaults of a new Post document
NewPost(body, author) ==
    [title |-> Trim(body.title), content |-> body.content, excerpt |-> << >>,
     author |-> author,
     tags |-> IF "tags" \in DOMAIN body THEN body.tags ELSE << >>,
     likes |-> << >>,
     status |-> IF "status" \in DOMAIN body THEN body.status ELSE "published",
     readTime |-> 0]

\* commentSchema: the defaults of a new Comment document
NewComment(content, author, post, parent) ==
    [content |-> Trim(content), author |-> author, post |-> post,
     parentComment |-> parent, likes |-> << >>, isEdited |-> FALSE]

\* Mongoose's validation of a Post against postSchema (runs before the
\* pre('save') hook): title required and at most 200 characters, content at
\* least 10, excerpt at most 300, status one of the enum's values.
PostSchemaValid(doc) ==
    /\ Len(doc.title) >= 1
    /\ Len(doc.title) <= MaxTitleLen
    /\ Len(doc.content) >= MinContentLen
    /\ Len(doc.excerpt) <= MaxExcerptLen
    /\ doc.status \in {"draft", "published"}

\* Mongoose's validation of a Comment against commentSchema
CommentSchemaValid(doc) ==
    /\ Len(doc.content) >= 1
    /\ Len(doc.content) <= MaxCommentLen

\* postSchema.pre('save'): the excerpt when there is none, the read time
GenExcerptUncut(doc) ==
    IF doc.excerpt = << >> /\ doc.content # << >>
    THEN doc.content \o Ellipsis
    ELSE doc.excerpt

GenExcerpt(doc) ==
    IF doc.excerpt = << >> /\ doc.content # << >>
    THEN Substring0(doc.content, ExcerptLen) \o Ellipsis
    ELSE doc.excerpt

GenReadTime(doc) ==
    IF doc.content # << >>
    THEN CeilDiv(SplitLen(doc.content), WordsPerMinute)
    ELSE doc.readTime

PreSave(doc) ==
    [doc EXCEPT !.excerpt = GenExcerpt(doc), !.readTime = GenReadTime(doc)]

\* toggleLike's change of the likes array (both schemas)
ToggleLikeOffByOne(likes, userId) ==
    IF IndexOf(likes, userId) > 1
    THEN Splice1(likes, IndexOf(likes, userId))
    ELSE Append(likes, userId)

ToggleLike(likes, userId) ==
    IF IndexOf(likes, userId) > 0
    THEN Splice1(likes, IndexOf(likes, userId))
    ELSE Append(likes, userId)

\* How Mongoose will write that change: splice marks the whole array for a
\* $set (guarded by the document's version), push is an atomic $push.
ToggleOp(likes, userId) ==
    IF Len(ToggleLike(likes, userId)) < Len(likes) THEN "set" ELSE "push"

\* Document.prototype.save() of a loaded document, as Mongoose writes it: an
\* update of the stored document carrying only the modified paths.  A path
\* whose value differs from the loaded one is $set; likes follows op ("push":
\* an atomic $push onto the stored array; "set": the whole array, and the
\* update then matches only a document whose version is still the loaded
\* one; "none": untouched).
WriteBack(stored, loaded, mem, op, pushed) ==
    [f \in DOMAIN stored |->
        IF f = "likes"
        THEN CASE op = "push" -> Append(stored.likes, pushed)
               [] op = "set" -> mem.likes
               [] OTHER -> stored.likes
        ELSE IF mem[f] # loaded[f] THEN mem[f] ELSE stored[f]]

\* save() throws when its update matches nothing: the document is gone, or
\* the write is guarded by the version and the stored version has moved on.
WriteFails(isStored, op, stale) == ~isStored \/ (op = "set" /\ stale)

\* findById throws a CastError for an id that is no ObjectId; the routes'
\* catch answers 500
Castable(id) == id # BadId

\* collection without the document id
Remove(coll, id) == [x \in DOMAIN coll \ {id} |-> coll[x]]

\* collection with the document id inserted or replaced
Put(coll, id, doc) == [x \in DOMAIN coll \cup {id} |-> IF x = id THEN doc ELSE coll[x]]

\* ------------------------------------------------------------------- state
VARIABLES
    posts,       \* the posts collection: stored post ids -> document
    comments,    \* the comments collection: stored comment ids -> document
    postSeq,     \* how many post ids have been issued (ids are never reused)
    commentSeq,  \* how many comment ids have been issued
    last,        \* the last request answered and its response
    reqs,        \* like requests between their findById and their save
    lastSave,    \* the slot whose save() was the last to land, 0 for none
    likeSeq,     \* how many requests have been started step by step so far
    token,       \* the browser's localStorage item 'token': its user, 0 for none
    currentUser, \* the client's currentUser: a user, 0 for null
    pending,     \* the client's requests in flight
    searchInput, \* the text in the client's search box
    searchTimeout, \* when the search box's timer is due, 0 for no timer
    now,         \* the time, in milliseconds
    issued,      \* the loadExplorePosts requests of the search box so far
    explorePosts, \* which request's posts the explore list shows, 0 for none
    typedAt      \* when the search box last had an input event

\* the store and its requests; the browser client
server == <<posts, comments, postSeq, commentSeq, last, reqs, lastSave, likeSeq>>
browser ==
    <<token, currentUser, pending, searchInput, searchTimeout, now, issued,
      explorePosts, typedAt>>

vars == <<server, browser>>

NoRequest ==
    [op |-> "none", id |-> 0, user |-> 0, code |-> 0,
     before |-> "none", before2 |-> "none", removed |-> {}]

Answer(op, id, user, code) ==
    [op |-> op, id |-> id, user |-> user.id, code |-> code, before |-> "none", before2 |-> "none", removed |-> {}]

Init ==
    /\ posts = << >>
    /\ comments = << >>
    /\ postSeq = 0
    /\ commentSeq = 0
    /\ last = NoRequest
    /\ reqs = << >>
    /\ lastSave = 0
    /\ likeSeq = 0
    /\ token = 0
    /\ currentUser = 0
    /\ pending = {}
    /\ searchInput = << >>
    /\ searchTimeout = 0
    /\ now = 0
    /\ issued = << >>
    /\ explorePosts = 0
    /\ typedAt = 0

\* req.user as the auth middleware sets it
Requesters == [id : Users, isAdmin : BOOLEAN]

Plain(u) == [id |-> u, isAdmin |-> FALSE]

\* the author-or-admin check of posts.js and of comments.js' delete
MayModifyInverted(doc, user) == doc.author = user.id \/ ~user.isAdmin

MayModifyAuthorOnly(doc, user) == doc.author = user.id

MayModify(doc, user) == doc.author = user.id \/ user.isAdmin

\* the author-only check of comments.js' update
IsAuthorOrAdmin(doc, user) == doc.author = user.id \/ user.isAdmin

IsAuthor(doc, user) == doc.author = user.id

\* ---------------------------------------------------------- posts.js routes
\* express-validator's chain of router.post('/')
CreatePostBodyValid(body) ==
    /\ Len(body.title) >= 1
    /\ Len(body.title) <= MaxTitleLen
    /\ Len(body.content) >= MinContentLen

\* router.post('/'): create a post
CreatePost(user, body) ==
    LET doc == NewPost(body, user.id)
        id == postSeq + 1
    IN  /\ postSeq < MaxPosts
        /\ UNCHANGED <<comments, commentSeq, reqs, lastSave, likeSeq, browser>>
        /\ IF ~CreatePostBodyValid(body)
           THEN /\ last' = Answer("createPost", 0, user, 400)
                /\ UNCHANGED <<posts, postSeq>>
           ELSE IF ~PostSchemaValid(doc)
           THEN /\ last' = Answer("createPost", 0, user, 500)
                /\ UNCHANGED <<posts, postSeq>>
           ELSE /\ posts' = Put(posts, id, PreSave(doc))
                /\ postSeq' = id
                /\ last' = Answer("createPost", id, user, 201)

\* express-validator's chain of router.put('/:id'): every field optional
UpdatePostBodyValid(patch) ==
    /\ "title" \in DOMAIN patch =>
         Len(patch.title) >= 1 /\ Len(patch.title) <= MaxTitleLen
    /\ "content" \in DOMAIN patch => Len(patch.content) >= MinContentLen

\* Object.assign(post, req.body): every field of the body is copied, the
\* title through its trim setter
Assign(doc, patch) ==
    [f \in DOMAIN doc |->
        IF f \notin DOMAIN patch THEN doc[f]
        ELSE IF f = "title" THEN Trim(patch[f])
        ELSE patch[f]]

\* router.put('/:id'): update a post
UpdatePost(user, id, patch) ==
    /\ UNCHANGED <<comments, commentSeq, postSeq, reqs, lastSave, likeSeq, browser>>
    /\ IF ~UpdatePostBodyValid(patch)
       THEN /\ last' = Answer("updatePost", id, user, 400)
            /\ UNCHANGED posts
       ELSE IF ~Castable(id)
       THEN /\ last' = Answer("updatePost", id, user, 500)
            /\ UNCHANGED posts
       ELSE IF id \notin DOMAIN posts
       THEN /\ last' = Answer("updatePost", id, user, 404)
            /\ UNCHANGED posts
       ELSE IF ~MayModify(posts[id], user)
       THEN /\ last' = Answer("updatePost", id, user, 403)
            /\ UNCHANGED posts
       ELSE IF ~PostSchemaValid(Assign(posts[id], patch))
       THEN /\ last' = Answer("updatePost", id, user, 500)
            /\ UNCHANGED posts
       ELSE /\ posts' = Put(posts, id,
                   WriteBack(posts[id], posts[id], PreSave(Assign(posts[id], patch)),
                             IF "likes" \in DOMAIN patch THEN "set" ELSE "none", 0))
            /\ last' = Answer("updatePost", id, user, 200)

\* Comment.deleteMany({ post: id })
DeleteTopLevelOfPost(cs, id) ==
    [c \in {x \in DOMAIN cs : ~(cs[x].post = id /\ cs[x].parentComment = NoParent)}
        |-> cs[c]]

DeleteCommentsOfPost(cs, id) ==
    [c \in {x \in DOMAIN cs : cs[x].post # id} |-> cs[c]]

\* What a delete records of itself: the comments it removed, each with the
\* comment it replied to.
Gone(before, after) ==
    {<<c, before[c].parentComment>> : c \in DOMAIN before \ DOMAIN after}

\* router.delete('/:id'): delete a post and its comments
DeletePost(user, id) ==
    /\ UNCHANGED <<commentSeq, postSeq, reqs, lastSave, likeSeq, browser>>
    /\ IF ~Castable(id)
       THEN /\ last' = Answer("deletePost", id, user, 500)
            /\ UNCHANGED <<posts, comments>>
       ELSE IF id \notin DOMAIN posts
       THEN /\ last' = Answer("deletePost", id, user, 404)
            /\ UNCHANGED <<posts, comments>>
       ELSE IF ~MayModify(posts[id], user)
       THEN /\ last' = Answer("deletePost", id, user, 403)
            /\ UNCHANGED <<posts, comments>>
       ELSE /\ comments' = DeleteCommentsOfPost(comments, id)
            /\ posts' = Remove(posts, id)
            /\ last' = [Answer("deletePost", id, user, 200) EXCEPT
                           !.removed = Gone(comments, comments')]

\* the membership of a user in a likes array, as the responses record it
Liked(likes, userId) == IF Member(likes, userId) THEN "in" ELSE "out"

\* What a like request records of itself: the requester's membership before
\* the toggle, and before the previous toggle when that was the same
\* requester's successful toggle of the same document.
LikeAnswer(op, id, user, likes) ==
    [Answer(op, id, user, 200) EXCEPT
        !.before = Liked(likes, user.id),
        !.before2 = IF last.op = op /\ last.id = id /\ last.user = user.id
                       /\ last.code = 200
                    THEN last.before ELSE "none"]

\* router.post('/:id/like') of posts.js, with postSchema.methods.toggleLike
LikePost(user, id) ==
    /\ UNCHANGED <<comments, commentSeq, postSeq, reqs, lastSave, likeSeq, browser>>
    /\ IF ~Castable(id)
       THEN /\ last' = Answer("likePost", id, user, 500)
            /\ UNCHANGED posts
       ELSE IF id \notin DOMAIN posts
       THEN /\ last' = Answer("likePost", id, user, 404)
            /\ UNCHANGED posts
       ELSE /\ posts' = Put(posts, id,
                   WriteBack(posts[id], posts[id],
                       PreSave([posts[id] EXCEPT
                                   !.likes = ToggleLike(posts[id].likes, user.id)]),
                       ToggleOp(posts[id].likes, user.id), user.id))
            /\ last' = LikeAnswer("likePost", id, user, posts[id].likes)

\* ------------------------------------------------------- comments.js routes
\* express-validator's chain of router.post('/') and router.put('/:id')
CommentBodyValid(content) == Len(content) >= 1 /\ Len(content) <= MaxCommentLen

\* router.post('/'): add a comment, or a reply when parentCommentId is given
CreateComment(user, content, postId, parentCommentId) ==
    LET doc == NewComment(content, user.id, postId, parentCommentId)
        id == commentSeq + 1
    IN  /\ commentSeq < MaxComments
        /\ UNCHANGED <<posts, postSeq, reqs, lastSave, likeSeq, browser>>
        /\ IF ~CommentBodyValid(content)
           THEN /\ last' = Answer("createComment", 0, user, 400)
                /\ UNCHANGED <<comments, commentSeq>>
           ELSE IF postId \notin DOMAIN posts
           THEN /\ last' = Answer("createComment", 0, user, 404)
                /\ UNCHANGED <<comments, commentSeq>>
           ELSE IF parentCommentId # NoParent /\ parentCommentId \notin DOMAIN comments
           THEN /\ last' = Answer("createComment", 0, user, 404)
                /\ UNCHANGED <<comments, commentSeq>>
           ELSE IF ~CommentSchemaValid(doc)
           THEN /\ last' = Answer("createComment", 0, user, 500)
                /\ UNCHANGED <<comments, commentSeq>>
           ELSE /\ comments' = Put(comments, id, doc)
                /\ commentSeq' = id
                /\ last' = Answer("createComment", id, user, 201)

\* router.put('/:id'): edit a comment, its author only
UpdateComment(user, id, content) ==
    /\ UNCHANGED <<posts, postSeq, commentSeq, reqs, lastSave, likeSeq, browser>>
    /\ IF ~CommentBodyValid(content)
       THEN /\ last' = Answer("updateComment", id, user, 400)
            /\ UNCHANGED comments
       ELSE IF ~Castable(id)
       THEN /\ last' = Answer("updateComment", id, user, 500)
            /\ UNCHANGED comments
       ELSE IF id \notin DOMAIN comments
       THEN /\ last' = Answer("updateComment", id, user, 404)
            /\ UNCHANGED comments
       ELSE IF ~IsAuthor(comments[id], user)
       THEN /\ last' = Answer("updateComment", id, user, 403)
            /\ UNCHANGED comments
       ELSE IF ~CommentSchemaValid([comments[id] EXCEPT !.content = Trim(content)])
       THEN /\ last' = Answer("updateComment", id, user, 500)
            /\ UNCHANGED comments
       ELSE /\ comments' = Put(comments, id,
                   WriteBack(comments[id], comments[id],
                       [comments[id] EXCEPT !.content = Trim(content),
                                            !.isEdited = TRUE],
                       "none", 0))
            /\ last' = Answer("updateComment", id, user, 200)

\* Comment.deleteMany({ parentComment: id })
DeleteThread(cs, id) ==
    [c \in {x \in DOMAIN cs :
              /\ cs[x].parentComment # id
              /\ cs[x].parentComment \in DOMAIN cs =>
                    cs[cs[x].parentComment].parentComment # id} |-> cs[c]]

DeleteReplies(cs, id) ==
    [c \in {x \in DOMAIN cs : cs[x].parentComment # id} |-> cs[c]]

\* router.delete('/:id'): delete a comment and the replies to it
DeleteComment(user, id) ==
    /\ UNCHANGED <<posts, postSeq, commentSeq, reqs, lastSave, likeSeq, browser>>
    /\ IF ~Castable(id)
       THEN /\ last' = Answer("deleteComment", id, user, 500)
            /\ UNCHANGED comments
       ELSE IF id \notin DOMAIN comments
       THEN /\ last' = Answer("deleteComment", id, user, 404)
            /\ UNCHANGED comments
       ELSE IF ~MayModify(comments[id], user)
       THEN /\ last' = Answer("deleteComment", id, user, 403)
            /\ UNCHANGED comments
       ELSE /\ comments' = Remove(DeleteReplies(comments, id), id)
            /\ last' = [Answer("deleteComment", id, user, 200) EXCEPT
                           !.removed = Gone(comments, comments')]

\* router.post('/:id/like') of comments.js, with commentSchema.methods.toggleLike
LikeComment(user, id) ==
    /\ UNCHANGED <<posts, postSeq, commentSeq, reqs, lastSave, likeSeq, browser>>
    /\ IF ~Castable(id)
       THEN /\ last' = Answer("likeComment", id, user, 500)
            /\ UNCHANGED comments
       ELSE IF id \notin DOMAIN comments
       THEN /\ last' = Answer("likeComment", id, user, 404)
            /\ UNCHANGED comments
       ELSE /\ comments' = Put(comments, id,
                   WriteBack(comments[id], comments[id],
                       [comments[id] EXCEPT
                           !.likes = ToggleLike(comments[id].likes, user.id)],
                       ToggleOp(comments[id].likes, user.id), user.id))
            /\ last' = LikeAnswer("likeComment", id, user, comments[id].likes)

\* ----------------------------------------------------------------- listings
\* A query is a record of the parameters the request carries, each a string.
\* page and limit as the handlers use them: in arithmetic (skip, pages) the
\* string is coerced to a number, for limit() and current it is parsed.
PageNumber(query) ==
    IF "page" \in DOMAIN query THEN ToNumber(query.page) ELSE DefaultPage

PageShown(query) ==
    IF "page" \in DOMAIN query THEN ParseInt(query.page) ELSE DefaultPage

LimitNumber(query, default) ==
    IF "limit" \in DOMAIN query THEN ToNumber(query.limit) ELSE default

LimitParsed(query, default) ==
    IF "limit" \in DOMAIN query THEN ParseInt(query.limit) ELSE default

\* a parameter that is given and truthy (not the empty string); a tag is
\* kept whole, a search text as its characters, an author as the user's id
Given(query, name) ==
    /\ name \in DOMAIN query
    /\ name = "tag" => query[name] # ""
    /\ name = "search" => query[name] # << >>

\* Ids are issued in the order of creation, so createdAt orders documents as
\* their ids do.  sort({ createdAt: -1 }) and sort({ createdAt: 1 }):
RECURSIVE NewestFirst(_)
NewestFirst(ids) ==
    IF ids = {} THEN << >>
    ELSE LET top == CHOOSE i \in ids : \A j \in ids : j <= i
         IN  <<top>> \o NewestFirst(ids \ {top})

LatestFirst(ids) == NewestFirst(ids)

RECURSIVE OldestFirst(_)
OldestFirst(ids) ==
    IF ids = {} THEN << >>
    ELSE LET low == CHOOSE i \in ids : \A j \in ids : i <= j
         IN  <<low>> \o OldestFirst(ids \ {low})

\* .skip(skip).limit(limit)
LimitOnly(seq, skip, limit) ==
    SubSeq(seq, 1, IF limit < Len(seq) THEN limit ELSE Len(seq))

SkipLimit(seq, skip, limit) ==
    SubSeq(seq, skip + 1, IF skip + limit < Len(seq) THEN skip + limit ELSE Len(seq))

\* the pagination envelope of every listing
PagesFloor(total, limit) == total \div limit

Pages(total, limit) == CeilDiv(total, limit)

Pagination(query, default, total) ==
    [current |-> PageShown(query),
     pages |-> Pages(total, LimitNumber(query, default)),
     total |-> total]

\* What a listing answers: the ids of the documents of the page, in order,
\* and the envelope.  The request is recorded with its query and the id of
\* its path (0 when the path has none).
Listing(op, id, query, default, sorted) ==
    [op |-> op, id |-> id, user |-> 0, code |-> 200,
     before |-> "none", before2 |-> "none", removed |-> {},
     query |-> query,
     items |-> SkipLimit(sorted, (PageNumber(query) - 1) * LimitNumber(query, default),
                         LimitParsed(query, default)),
     pagination |-> Pagination(query, default, Len(sorted))]

ListingFailed(op, id, query) ==
    [op |-> op, id |-> id, user |-> 0, code |-> 500,
     before |-> "none", before2 |-> "none", removed |-> {}, query |-> query]

\* the query document of router.get('/') of posts.js
PostQueryAnyStatus(query) ==
    {id \in DOMAIN posts :
        /\ Given(query, "tag") => Member(posts[id].tags, query.tag)
        /\ Given(query, "search") =>
              \/ RegexTest(query.search, posts[id].title)
              \/ RegexTest(query.search, posts[id].content)
        /\ Given(query, "author") => posts[id].author = query.author}

PostQuery(query) ==
    {id \in DOMAIN posts :
        /\ posts[id].status = "published"
        /\ Given(query, "tag") => Member(posts[id].tags, query.tag)
        /\ Given(query, "search") =>
              \/ RegexTest(query.search, posts[id].title)
              \/ RegexTest(query.search, posts[id].content)
        /\ Given(query, "author") => posts[id].author = query.author}

\* router.get('/') of posts.js: the published posts, filtered
ListPosts(query) ==
    /\ UNCHANGED <<posts, comments, postSeq, commentSeq, reqs, lastSave, likeSeq, browser>>
    /\ last' = IF Given(query, "author") /\ ~Castable(query.author)
               THEN ListingFailed("listPosts", 0, query)
               ELSE Listing("listPosts", 0, query, DefaultLimit,
                            NewestFirst(PostQuery(query)))

\* router.get('/user/:userId'): the published posts of one author
ListUserPosts(userId, query) ==
    /\ UNCHANGED <<posts, comments, postSeq, commentSeq, reqs, lastSave, likeSeq, browser>>
    /\ last' = IF ~Castable(userId)
               THEN ListingFailed("listUserPosts", userId, query)
               ELSE Listing("listUserPosts", userId, query, DefaultLimit,
                       NewestFirst({id \in DOMAIN posts :
                                       /\ posts[id].author = userId
                                       /\ posts[id].status = "published"}))

\* router.get('/post/:postId') of comments.js: a post's top-level comments
ListTopLevel(postId, query) ==
    /\ UNCHANGED <<posts, comments, postSeq, commentSeq, reqs, lastSave, likeSeq, browser>>
    /\ last' = IF ~Castable(postId)
               THEN ListingFailed("listTopLevel", postId, query)
               ELSE Listing("listTopLevel", postId, query, DefaultCommentLimit,
                       NewestFirst({id \in DOMAIN comments :
                                       /\ comments[id].post = postId
                                       /\ comments[id].parentComment = NoParent}))

\* router.get('/:id/replies') of comments.js: the replies to a comment
ListReplies(id, query) ==
    /\ UNCHANGED <<posts, comments, postSeq, commentSeq, reqs, lastSave, likeSeq, browser>>
    /\ last' = IF ~Castable(id)
               THEN ListingFailed("listReplies", id, query)
               ELSE Listing("listReplies", id, query, DefaultLimit,
                       OldestFirst({c \in DOMAIN comments :
                                       comments[c].parentComment = id}))

\* ------------------------------------------- like requests, step by step
\* A like request awaits twice: findById, then toggleLike's save().  Other
\* requests run in between.  A slot holds one request from its findById on:
\* the document it loaded, whether the stored version has moved on since
\* (stale), which slots saved while it was suspended (raced), and, once
\* answered, its status code and the membership of its user in the likes it
\* held when it saved (wrote).
Collection(kind) == IF kind = "post" THEN posts ELSE comments

SlotFree(slot) == IF slot \in DOMAIN reqs THEN reqs[slot].phase = "done" ELSE TRUE

\* the other slots' records once slot starts a new request
Forget(slot) ==
    [r \in DOMAIN reqs \ {slot} |-> [reqs[r] EXCEPT !.raced = @ \ {slot}]]

\* router.post('/:id/like') up to its findById: 500, 404, or suspended on
\* save()
LikeLoad(slot, kind, id, userId) ==
    /\ SlotFree(slot)
    /\ likeSeq < MaxLikes
    /\ likeSeq' = likeSeq + 1
    /\ UNCHANGED <<posts, comments, postSeq, commentSeq, last, browser>>
    /\ lastSave' = IF lastSave = slot THEN 0 ELSE lastSave
    /\ reqs' = Put(Forget(slot), slot,
          IF ~Castable(id)
          THEN [kind |-> kind, id |-> id, user |-> userId,
                doc |-> << >>, phase |-> "done",
                stale |-> FALSE, raced |-> {}, code |-> 500, wrote |-> "none"]
          ELSE IF id \in DOMAIN Collection(kind)
          THEN [kind |-> kind, id |-> id, user |-> userId,
                doc |-> Collection(kind)[id], phase |-> "loaded",
                stale |-> FALSE, raced |-> {}, code |-> 0, wrote |-> "none"]
          ELSE [kind |-> kind, id |-> id, user |-> userId,
                doc |-> << >>, phase |-> "done",
                stale |-> FALSE, raced |-> {}, code |-> 404, wrote |-> "none"])

\* the document in memory after toggleLike, with the post's pre('save') hook
Toggled(req) ==
    LET mem == [req.doc EXCEPT !.likes = ToggleLike(req.doc.likes, req.user)]
    IN  IF req.kind = "post" THEN PreSave(mem) ELSE mem

\* the requests suspended on the same document as slot's
Beside(slot) ==
    {r \in DOMAIN reqs \ {slot} :
        /\ reqs[r].phase = "loaded"
        /\ reqs[r].kind = reqs[slot].kind
        /\ reqs[r].id = reqs[slot].id}

\* toggleLike's save() and the response: 200, or 500 when save() throws
LikeSave(slot) ==
    LET req == reqs[slot]
        coll == Collection(req.kind)
        op == ToggleOp(req.doc.likes, req.user)
        fails == WriteFails(req.id \in DOMAIN coll, op, req.stale)
        written == Put(coll, req.id,
                       WriteBack(coll[req.id], req.doc, Toggled(req), op, req.user))
    IN  /\ slot \in DOMAIN reqs
        /\ req.phase = "loaded"
        /\ UNCHANGED <<postSeq, commentSeq, last, likeSeq, browser>>
        /\ posts' = IF ~fails /\ req.kind = "post" THEN written ELSE posts
        /\ comments' = IF ~fails /\ req.kind = "comment" THEN written ELSE comments
        /\ lastSave' = IF fails THEN lastSave ELSE slot
        /\ reqs' = [r \in DOMAIN reqs |->
              IF r = slot
              THEN [req EXCEPT !.phase = "done",
                               !.code = IF fails THEN 500 ELSE 200,
                               !.wrote = Liked(Toggled(req).likes, req.user)]
              ELSE IF r \in Beside(slot)
              THEN [reqs[r] EXCEPT !.raced = @ \cup {slot},
                                   !.stale = @ \/ ~fails]
              ELSE reqs[r]]

\* ------------------------- createComment and deletePost, step by step
\* router.post('/') of comments.js awaits its lookups (the post, the
\* parent), then comment.save(); router.delete('/:id') of posts.js awaits
\* findById, then deleteMany, then remove.  Other requests run at each
\* await.  A slot holds one such request and where it stands.
Started(slot, record) ==
    /\ SlotFree(slot)
    /\ likeSeq < MaxLikes
    /\ likeSeq' = likeSeq + 1
    /\ reqs' = Put(reqs, slot, record)

\* router.post('/') up to its lookups: 400, 404, or suspended on save()
CommentCheck(slot, user, content, postId, parentCommentId) ==
    LET answered(code) ==
           [kind |-> "createComment", id |-> 0, phase |-> "done", code |-> code]
    IN  /\ UNCHANGED <<posts, comments, postSeq, commentSeq, last, lastSave, browser>>
        /\ Started(slot,
              IF ~CommentBodyValid(content) THEN answered(400)
              ELSE IF postId \notin DOMAIN posts THEN answered(404)
              ELSE IF parentCommentId # NoParent
                      /\ parentCommentId \notin DOMAIN comments
              THEN answered(404)
              ELSE [kind |-> "createComment", id |-> 0, phase |-> "checked",
                    code |-> 0,
                    doc |-> NewComment(content, user.id, postId, parentCommentId)])

\* comment.save() of a new comment, an insert, and the response
CommentSave(slot) ==
    LET req == reqs[slot]
        id == commentSeq + 1
    IN  /\ slot \in DOMAIN reqs
        /\ req.kind = "createComment"
        /\ req.phase = "checked"
        /\ commentSeq < MaxComments
        /\ UNCHANGED <<posts, postSeq, last, lastSave, likeSeq, browser>>
        /\ IF ~CommentSchemaValid(req.doc)
           THEN /\ reqs' = [reqs EXCEPT ![slot].phase = "done", ![slot].code = 500]
                /\ UNCHANGED <<comments, commentSeq>>
           ELSE /\ comments' = Put(comments, id, req.doc)
                /\ commentSeq' = id
                /\ reqs' = [reqs EXCEPT ![slot].phase = "done", ![slot].code = 201,
                                         ![slot].id = id]

\* router.delete('/:id') of posts.js up to its findById and its check
PostDeleteFind(slot, user, id) ==
    LET answered(code) ==
           [kind |-> "deletePost", id |-> id, phase |-> "done", code |-> code]
    IN  /\ UNCHANGED <<posts, comments, postSeq, commentSeq, last, lastSave, browser>>
        /\ Started(slot,
              IF ~Castable(id) THEN answered(500)
              ELSE IF id \notin DOMAIN posts THEN answered(404)
              ELSE IF ~MayModify(posts[id], user) THEN answered(403)
              ELSE [kind |-> "deletePost", id |-> id, phase |-> "found", code |-> 0])

\* Comment.deleteMany({ post: post._id })
PostDeleteMany(slot) ==
    /\ slot \in DOMAIN reqs
    /\ reqs[slot].kind = "deletePost"
    /\ reqs[slot].phase = "found"
    /\ UNCHANGED <<posts, postSeq, commentSeq, last, lastSave, likeSeq, browser>>
    /\ comments' = DeleteCommentsOfPost(comments, reqs[slot].id)
    /\ reqs' = [reqs EXCEPT ![slot].phase = "emptied"]

\* post.remove() and the response
PostDeleteRemove(slot) ==
    /\ slot \in DOMAIN reqs
    /\ reqs[slot].kind = "deletePost"
    /\ reqs[slot].phase = "emptied"
    /\ UNCHANGED <<comments, postSeq, commentSeq, last, lastSave, likeSeq, browser>>
    /\ posts' = Remove(posts, reqs[slot].id)
    /\ reqs' = [reqs EXCEPT ![slot].phase = "done", ![slot].code = 200]

\* ------------------------------------------------- the browser client
\* src/unnamed/part_000.  A token stands for the user it was issued to.  A
\* request in flight records what it is, the token or credentials it was
\* sent with and, for a checkAuth, whether a login has succeeded since it
\* was sent.  The auth endpoints are outside the repository: a response is
\* a success or a failure, and a success carries the user of what was sent.
Request(kind, sent) == [kind |-> kind, sent |-> sent, overtaken |-> FALSE]

\* the search box and the explore list
search == <<searchInput, searchTimeout, now, issued, explorePosts, typedAt>>

\* The page loads: the globals are initial, the requests and the timer of
\* the page before are gone, localStorage is kept.  The DOMContentLoaded
\* handler calls checkAuth, which sends GET /auth/me when a token is stored.
DOMContentLoaded ==
    /\ UNCHANGED <<server, token, now>>
    /\ currentUser' = 0
    /\ pending' = IF token # 0 THEN {Request("checkAuth", token)} ELSE {}
    /\ searchInput' = << >>
    /\ searchTimeout' = 0
    /\ issued' = << >>
    /\ explorePosts' = 0
    /\ typedAt' = 0

\* checkAuth after its await: the user of the response; or, when the
\* request failed, the catch, which removes the token
CheckAuthDone(req, ok) ==
    /\ req \in pending
    /\ req.kind = "checkAuth"
    /\ UNCHANGED <<server, search>>
    /\ pending' = pending \ {req}
    /\ IF ok
       THEN currentUser' = req.sent /\ UNCHANGED token
       ELSE token' = 0 /\ currentUser' = 0

\* the login form is submitted (the login button shows while currentUser is
\* null): login sends POST /auth/login
LoginSubmit(user) ==
    /\ currentUser = 0
    /\ Cardinality(pending) < MaxPending
    /\ UNCHANGED <<server, search, token, currentUser>>
    /\ pending' = pending \cup {Request("login", user)}

\* login after its await: the token is stored and currentUser set; a
\* failure is only shown
LoginDone(req, ok) ==
    /\ req \in pending
    /\ req.kind = "login"
    /\ UNCHANGED <<server, search>>
    /\ IF ok
       THEN /\ token' = req.sent
            /\ currentUser' = req.sent
            /\ pending' = {IF r.kind = "checkAuth" THEN [r EXCEPT !.overtaken = TRUE]
                            ELSE r : r \in pending \ {req}}
       ELSE /\ UNCHANGED <<token, currentUser>>
            /\ pending' = pending \ {req}

\* logout (its button shows while currentUser is set)
Logout ==
    /\ currentUser # 0
    /\ UNCHANGED <<server, search, pending>>
    /\ token' = 0
    /\ currentUser' = 0

\* the profile form is submitted (opened from the profile of currentUser):
\* PUT /auth/profile with the stored token
ProfileSubmit ==
    /\ currentUser # 0
    /\ Cardinality(pending) < MaxPending
    /\ UNCHANGED <<server, search, token, currentUser>>
    /\ pending' = pending \cup {Request("profile", token)}

\* the profile form's handler after its await: currentUser is the user of
\* the response; a request sent without a token cannot succeed
ProfileDone(req, ok) ==
    /\ req \in pending
    /\ req.kind = "profile"
    /\ ok => req.sent # 0
    /\ UNCHANGED <<server, search, token>>
    /\ pending' = pending \ {req}
    /\ currentUser' = IF ok THEN req.sent ELSE currentUser

\* the auth state and the requests in flight
auth == <<token, currentUser>>

\* an input event on the search box: the timer is cleared and set anew
SearchInput(text) ==
    /\ UNCHANGED <<server, auth, pending, now, issued, explorePosts>>
    /\ searchInput' = text
    /\ searchTimeout' = now + DebounceMs
    /\ typedAt' = now

\* the timer fires: loadExplorePosts(1, the trimmed text of the box) sends
\* its request
SearchTimerFires ==
    /\ searchTimeout # 0
    /\ now >= searchTimeout
    /\ Len(issued) < MaxSearches
    /\ UNCHANGED <<server, auth, searchInput, now, explorePosts, typedAt>>
    /\ searchTimeout' = 0
    /\ issued' = Append(issued, [term |-> Trim(searchInput), typedAt |-> typedAt,
                                 at |-> now, done |-> "no"])
    /\ pending' = pending \cup {Request("explore", Len(issued) + 1)}

\* loadExplorePosts after its await: the posts of the response are rendered;
\* a failure is only shown
ExploreDone(req, ok) ==
    /\ req \in pending
    /\ req.kind = "explore"
    /\ UNCHANGED <<server, auth, searchInput, searchTimeout, now, typedAt>>
    /\ pending' = pending \ {req}
    /\ issued' = [issued EXCEPT ![req.sent].done = IF ok THEN "ok" ELSE "failed"]
    /\ explorePosts' = IF ok THEN req.sent ELSE explorePosts

\* time passes, up to the moment the timer is due
Tick ==
    /\ now < MaxTime
    /\ searchTimeout # 0 => now < searchTimeout
    /\ UNCHANGED <<server, auth, pending, searchInput, searchTimeout, issued,
                   explorePosts, typedAt>>
    /\ now' = IF searchTimeout # 0 /\ searchTimeout < now + TickMs
              THEN searchTimeout ELSE now + TickMs

\* ------------------------------------------------------------------ inputs
Hello == <<"h", "e", "l", "l", "o", " ", "w", "o", "r", "l", "d">>
Other == <<"a", "n", "o", "t", "h", "e", "r", " ", "o", "n", "e">>
TooShort == <<"h", "i">>

TitleInputs == {<< >>, <<"T">>}
CommentInputs == {<< >>, <<"o", "k">>}
ParentInputs == CommentIds \cup {NoParent}

\* ------------------------------------------- Spec: posts and their comments
\* Requests handled one at a time, each handler running to its response.
CreateBodies == [title : TitleInputs, content : {TooShort, Hello}]

\* The bodies of an update: one field, or none.
Patches == {<< >>} \cup [title : TitleInputs] \cup [content : {TooShort, Other}]

\* The create routes read only the requester's id.
Next ==
    \/ \E u \in Users, body \in CreateBodies : CreatePost(Plain(u), body)
    \/ \E user \in Requesters, id \in PostIds, patch \in Patches :
          UpdatePost(user, id, patch)
    \/ \E user \in Requesters, id \in PostIds : DeletePost(user, id)
    \/ \E u \in Users, content \in CommentInputs, postId \in PostIds,
          parent \in ParentInputs :
          CreateComment(Plain(u), content, postId, parent)

Spec == Init /\ [][Next]_vars

\* ------------------------------------------------------- SpecLikes: likes
\* One post and one comment, liked and unliked; the post's author or an
\* admin may also send likes in the body of an update.
LikesBody == [title |-> <<"T">>, content |-> Hello]

LikesPatches ==
    [likes : {<< >>} \cup {<<u, u>> : u \in Users}] \cup [content : {Other}]
    \cup [author : Users]

NextLikes ==
    \/ \E u \in Users : postSeq < FewPosts /\ CreatePost(Plain(u), LikesBody)
    \/ \E user \in Requesters, id \in PostIds, patch \in LikesPatches :
          UpdatePost(user, id, patch)
    \/ \E u \in Users, id \in PostIds : LikePost(Plain(u), id)
    \/ \E u \in Users, postId \in PostIds :
          commentSeq < FewComments
          /\ CreateComment(Plain(u), <<"o", "k">>, postId, NoParent)
    \/ \E u \in Users, id \in CommentIds : LikeComment(Plain(u), id)

SpecLikes == Init /\ [][NextLikes]_vars

\* ---------------------------------------------- SpecDerive: derived fields
\* One post, created and updated with texts of 2, 200, 201 and 400 words.
Words400 == Words(2 * WordsPerMinute, <<" ">>)
Words200Wide == Words(WordsPerMinute, <<" ", " ">>)
Words201Lines == Words(WordsPerMinute + 1, <<"\n">>)

DeriveContents == {TooShort, Hello, Other, Words400, Words200Wide, Words201Lines}
Summary == <<"s", "u", "m">>

DeriveBodies == [title : {<<"T">>}, content : DeriveContents]

DerivePatches ==
    [content : DeriveContents]
    \cup [excerpt : {<< >>, Summary}]
    \cup [content : {Hello, Words400}, excerpt : {Summary}]

NextDerive ==
    \/ \E u \in Users, body \in DeriveBodies :
          postSeq < FewPosts /\ CreatePost(Plain(u), body)
    \/ \E user \in Requesters, id \in PostIds, patch \in DerivePatches :
          UpdatePost(user, id, patch)

SpecDerive == Init /\ [][NextDerive]_vars

\* ------------------------------------------ SpecRace: concurrent likes
\* One post and one comment; like requests of any users interleave at their
\* awaits.
NextRace ==
    \/ \E u \in Users : postSeq < FewPosts /\ CreatePost(Plain(u), LikesBody)
    \/ \E u \in Users, postId \in PostIds :
          commentSeq < FewComments
          /\ CreateComment(Plain(u), <<"o", "k">>, postId, NoParent)
    \/ \E slot \in Slots, kind \in {"post", "comment"}, id \in 1 .. FewPosts,
          u \in Users :
          LikeLoad(slot, kind, id, u)
    \/ \E slot \in Slots : LikeSave(slot)

SpecRace == Init /\ [][NextRace]_vars

\* ------------------------------------------ SpecPages: the four listings
\* Two posts and three comments, listed page by page; the queries carry
\* page and limit, or nothing.
PageInputs == {Decimal(p) : p \in 1 .. MaxPage}
LimitInputs == {Decimal(l) : l \in 1 .. MaxLimit} \cup {Decimal(DefaultLimit)}
PageQueries == {<< >>} \cup [page : PageInputs, limit : LimitInputs]

NextPages ==
    \/ \E u \in Users : CreatePost(Plain(u), LikesBody)
    \/ \E postId \in PostIds, parent \in ParentInputs :
          CreateComment(Plain(1), <<"o", "k">>, postId, parent)
    \/ \E query \in PageQueries : ListPosts(query)
    \/ \E u \in Users, query \in PageQueries : ListUserPosts(u, query)
    \/ \E postId \in PostIds, query \in PageQueries : ListTopLevel(postId, query)
    \/ \E id \in CommentIds, query \in PageQueries : ListReplies(id, query)

SpecPages == Init /\ [][NextPages]_vars

\* ------------------------------------- SpecFilter: drafts and the filters
\* Two posts, published or draft, tagged or not, titled "Foo" or "T"; their
\* status changed by their authors; the posts listed under every combination
\* of tag, search and author.  The searches: a word in another case, a
\* pattern with the metacharacter ".", a letter no post has.
Foo == <<"F", "o", "o">>
FilterBodies ==
    [title : {Foo, <<"T">>}, content : {Hello}, status : {"draft", "published"},
     tags : {<< >>, <<"js">>}]

StatusPatches == [status : {"draft", "published"}]

TagInputs == {"js", "go"}
SearchInputs == {<<"f", "O", "o">>, <<"h", ".", "l">>, <<"z">>}
FirstPages == [page : {Decimal(1), Decimal(2)}, limit : {Decimal(1)}]

FilterQueries ==
    {<< >>} \cup [tag : TagInputs] \cup [search : SearchInputs] \cup [author : Users]
    \cup [tag : TagInputs, search : SearchInputs]
    \cup [tag : TagInputs, author : Users]
    \cup [search : SearchInputs, author : Users]
    \cup [tag : TagInputs, search : SearchInputs, author : Users]
    \cup FirstPages
    \cup [tag : TagInputs, page : {Decimal(1), Decimal(2)}, limit : {Decimal(1)}]

NextFilter ==
    \/ \E u \in Users, body \in FilterBodies : CreatePost(Plain(u), body)
    \/ \E u \in Users, id \in PostIds, patch \in StatusPatches :
          UpdatePost(Plain(u), id, patch)
    \/ \E query \in FilterQueries : ListPosts(query)
    \/ \E u \in Users, query \in {<< >>} \cup FirstPages : ListUserPosts(u, query)

SpecFilter == Init /\ [][NextFilter]_vars

\* --------------------------------------- SpecComments: a post's comments
\* One post; comments and replies on it (and on a post that is not there),
\* edited and deleted by their authors, by others and by admins.  The
\* contents: none, a blank, a word, a word with a blank after it.
ReplyInputs == {<< >>, <<" ">>, <<"o", "k">>}
EditInputs == {<< >>, <<" ">>, <<"e", " ">>}

NextComments ==
    \/ postSeq < FewPosts /\ CreatePost(Plain(1), LikesBody)
    \/ \E u \in Users, content \in ReplyInputs, postId \in PostIds,
          parent \in ParentInputs :
          CreateComment(Plain(u), content, postId, parent)
    \/ \E user \in Requesters, id \in CommentIds, content \in EditInputs :
          UpdateComment(user, id, content)
    \/ \E user \in Requesters, id \in CommentIds : DeleteComment(user, id)

SpecComments == Init /\ [][NextComments]_vars

\* ------------------------------------ SpecValidate: fields out of bounds
\* Posts and comments created and updated with fields inside and outside the
\* data model's bounds: a title of 0 or 201 characters, a content of 2, a
\* status that is no status, a comment of 0 or 1001 characters.
LongTitle == Rep(<<"t">>, MaxTitleLen + 1)
LongComment == Rep(<<"c">>, MaxCommentLen + 1)

ValidateBodies ==
    [title : {<< >>, <<"T">>, LongTitle}, content : {TooShort, Hello}]
    \cup [title : {<<"T">>}, content : {Hello}, status : {"draft", "archived"}]

ValidatePatches ==
    [title : {<< >>, LongTitle, Foo}] \cup [content : {TooShort, Other}]
    \cup [status : {"draft", "archived"}]

ValidateComments == {<< >>, <<"o", "k">>, LongComment}

NextValidate ==
    \/ \E body \in ValidateBodies : CreatePost(Plain(1), body)
    \/ \E user \in Requesters, id \in PostIds, patch \in ValidatePatches :
          UpdatePost(user, id, patch)
    \/ \E content \in ValidateComments, postId \in PostIds :
          commentSeq < FewComments
          /\ CreateComment(Plain(1), content, postId, NoParent)
    \/ \E u \in Users, id \in CommentIds, content \in ValidateComments :
          UpdateComment(Plain(u), id, content)

SpecValidate == Init /\ [][NextValidate]_vars

\* --------------------------------------- SpecMissing: ids that resolve to
\* nothing.  One post and one comment, created and deleted; updates, deletes
\* and likes of them, of ids never issued and of an id that is no ObjectId.
PostTargets == PostIds \cup {BadId}
CommentTargets == CommentIds \cup {BadId}
TitlePatches == [title : {<< >>, Foo}]
Edits == {<< >>, <<"e", "d">>}

NextMissing ==
    \/ \E u \in Users : postSeq < FewPosts /\ CreatePost(Plain(u), LikesBody)
    \/ \E u \in Users, postId \in PostIds :
          commentSeq < FewComments
          /\ CreateComment(Plain(u), <<"o", "k">>, postId, NoParent)
    \/ \E user \in Requesters, id \in PostTargets, patch \in TitlePatches :
          UpdatePost(user, id, patch)
    \/ \E user \in Requesters, id \in PostTargets : DeletePost(user, id)
    \/ \E u \in Users, id \in PostTargets : LikePost(Plain(u), id)
    \/ \E user \in Requesters, id \in CommentTargets, content \in Edits :
          UpdateComment(user, id, content)
    \/ \E user \in Requesters, id \in CommentTargets : DeleteComment(user, id)
    \/ \E u \in Users, id \in CommentTargets : LikeComment(Plain(u), id)

SpecMissing == Init /\ [][NextMissing]_vars

\* --------------------- SpecOrphan: comments added while a post is deleted
\* One post; createComment and deletePost requests of any users interleave
\* at their awaits.
NextOrphan ==
    \/ \E u \in Users : postSeq < FewPosts /\ CreatePost(Plain(u), LikesBody)
    \/ \E slot \in Slots, u \in Users, content \in CommentInputs,
          postId \in PostIds, parent \in ParentInputs :
          CommentCheck(slot, Plain(u), content, postId, parent)
    \/ \E slot \in Slots : CommentSave(slot)
    \/ \E slot \in Slots, user \in Requesters, id \in PostIds :
          PostDeleteFind(slot, user, id)
    \/ \E slot \in Slots : PostDeleteMany(slot)
    \/ \E slot \in Slots : PostDeleteRemove(slot)

SpecOrphan == Init /\ [][NextOrphan]_vars

\* ---------------------------------------- SpecClient: the client's login
\* Page loads, logins, logouts and profile updates of any users, their
\* responses arriving in any order.
NextClient ==
    \/ DOMContentLoaded
    \/ \E req \in pending, ok \in BOOLEAN : CheckAuthDone(req, ok)
    \/ \E u \in Users : LoginSubmit(u)
    \/ \E req \in pending, ok \in BOOLEAN : LoginDone(req, ok)
    \/ Logout
    \/ ProfileSubmit
    \/ \E req \in pending, ok \in BOOLEAN : ProfileDone(req, ok)

SpecClient == Init /\ [][NextClient]_vars

\* --------------------------------------- SpecSearch: the client's search
\* Texts typed into the search box at any times; the responses to the
\* searches arriving in any order.
SearchTexts == {<<"f">>, <<"f", "o", " ">>}

NextSearch ==
    \/ \E text \in SearchTexts : SearchInput(text)
    \/ SearchTimerFires
    \/ \E req \in pending, ok \in BOOLEAN : ExploreDone(req, ok)
    \/ Tick

SpecSearch == Init /\ [][NextSearch]_vars

\* ------------------------------------------------------------------ claims
\* a body that express-validator's chain of the update route rejects
RejectedPatch(patch) ==
    \/ "title" \in DOMAIN patch /\ (Len(patch.title) < 1 \/ Len(patch.title) > MaxTitleLen)
    \/ "content" \in DOMAIN patch /\ Len(patch.content) < MinContentLen

\* the requester of the request answered last, were they no admin
LastUser == [id |-> last'.user, isAdmin |-> FALSE]

\* A step that answers an updatePost or deletePost of a stored post asked by
\* someone other than its author.
NonAuthorStep ==
    /\ last'.op \in {"updatePost", "deletePost"}
    /\ last'.id \in DOMAIN posts
    /\ posts[last'.id].author # last'.user

\* C1 as stated: updatePost and deletePost by a requester who is neither the
\* author nor an admin answer 403 and change neither the post nor any comment.
C1_Original ==
    [][NonAuthorStep =>
          /\ DeletePost(LastUser, last'.id) =>
                last'.code = 403 /\ posts' = posts /\ comments' = comments
          /\ \A patch \in Patches :
                UpdatePost(LastUser, last'.id, patch) =>
                   last'.code = 403 /\ posts' = posts /\ comments' = comments]_vars

\* C1 amended: such a requester's deletePost answers 403, their updatePost
\* answers 403 when the body passes the route's validation and 400 when it
\* does not, and in every case the post and all comments are unchanged.
C1_ForbiddenUnchanged ==
    [][NonAuthorStep =>
          /\ DeletePost(LastUser, last'.id) =>
                last'.code = 403 /\ posts' = posts /\ comments' = comments
          /\ \A patch \in Patches :
                UpdatePost(LastUser, last'.id, patch) =>
                   /\ last'.code = IF RejectedPatch(patch) THEN 400 ELSE 403
                   /\ posts' = posts
                   /\ comments' = comments]_vars

\* C1 witness: a 403 to an update of a stored, commented post asked by
\* someone other than its author.
C1_Witness ==
    /\ last.op = "updatePost"
    /\ last.code = 403
    /\ last.id \in DOMAIN posts
    /\ posts[last.id].author # last.user
    /\ \E c \in DOMAIN comments : comments[c].post = last.id

\* C2: a deletePost that succeeds was asked by the author or an admin; after
\* it the post is gone, no comment at any depth has post = id, and the
\* other posts and the comments of other posts are as they were.
C2_DeleteCascades ==
    [][(last'.op = "deletePost" /\ last'.code = 200) =>
          /\ last'.id \in DOMAIN posts
          /\ \/ posts[last'.id].author = last'.user
             \/ DeletePost([id |-> last'.user, isAdmin |-> TRUE], last'.id)
          /\ last'.id \notin DOMAIN posts'
          /\ \A p \in DOMAIN posts \ {last'.id} :
                p \in DOMAIN posts' /\ posts'[p] = posts[p]
          /\ \A c \in DOMAIN comments' : comments'[c].post # last'.id
          /\ \A c \in DOMAIN comments :
                comments[c].post # last'.id =>
                   c \in DOMAIN comments' /\ comments'[c] = comments[c]]_vars

\* C2 witness: a successful deletePost that removed a comment, a reply to it
\* and a reply to that reply.
C2_Witness ==
    /\ last.op = "deletePost"
    /\ last.code = 200
    /\ \E a, b, c \in CommentIds :
          {<<a, NoParent>>, <<b, a>>, <<c, b>>} \subseteq last.removed

\* the likes of the document the last like request was about
LastLikes ==
    IF last.op = "likePost" THEN posts[last.id].likes ELSE comments[last.id].likes

\* C3 as stated: after two successive successful toggleLike calls of one user
\* on one post or comment, the user's membership in its likes is what it was
\* before the first of the two.
C3_TwoTogglesRestore ==
    (last.op \in {"likePost", "likeComment"} /\ last.code = 200
        /\ last.before2 # "none")
    => Liked(LastLikes, last.user) = last.before2

\* C4 as stated: a toggleLike flips the membership of its user and leaves
\* every other user's membership, and the document's content, author, status
\* and post and parent references, as they were.
C4_ToggleFlipsOne ==
    [][(last'.op \in {"likePost", "likeComment"} /\ last'.code = 200) =>
          LET old == IF last'.op = "likePost" THEN posts[last'.id]
                     ELSE comments[last'.id]
              new == IF last'.op = "likePost" THEN posts'[last'.id]
                     ELSE comments'[last'.id]
          IN  /\ Member(new.likes, last'.user) # Member(old.likes, last'.user)
              /\ \A v \in Users \ {last'.user} :
                    Member(new.likes, v) = Member(old.likes, v)
              /\ [new EXCEPT !.likes = << >>] = [old EXCEPT !.likes = << >>]]_vars

\* C7 as stated: no user id occurs more than once in the likes of any post or
\* comment.
C7_LikesUnique ==
    /\ \A p \in DOMAIN posts : \A u \in Users : Occurrences(posts[p].likes, u) <= 1
    /\ \A c \in DOMAIN comments :
          \A u \in Users : Occurrences(comments[c].likes, u) <= 1

\* C8 as stated: a created post's readTime is ceil(wordCount(content) / 200),
\* the words being the runs of non-blank characters of the content.
C8_ReadTimeOfWords ==
    (last.op = "createPost" /\ last.code = 201) =>
       posts[last.id].readTime
          = CeilDiv(WordCount(posts[last.id].content), WordsPerMinute)

\* C9 as stated: a created post's excerpt is a prefix of its content, of at
\* most 300 characters.
C9_Original ==
    (last.op = "createPost" /\ last.code = 201) =>
       /\ IsPrefix(posts[last.id].excerpt, posts[last.id].content)
       /\ Len(posts[last.id].excerpt) <= MaxExcerptLen

\* C9 amended: a created post's excerpt is the first 150 characters of its
\* content (all of it when shorter) followed by "...", so at most 153
\* characters long.
C9_ExcerptIsCutContent ==
    (last.op = "createPost" /\ last.code = 201) =>
       LET e == posts[last.id].excerpt
           c == posts[last.id].content
           n == Len(e) - Len(Ellipsis)
       IN  /\ n >= 0
           /\ n = (IF Len(c) < ExcerptLen THEN Len(c) ELSE ExcerptLen)
           /\ SubSeq(e, n + 1, Len(e)) = Ellipsis
           /\ IsPrefix(SubSeq(e, 1, n), c)
           /\ Len(e) <= ExcerptLen + Len(Ellipsis)

\* C9 witness: a created post whose content is longer than the cut.
C9_Witness ==
    /\ last.op = "createPost"
    /\ last.code = 201
    /\ Len(posts[last.id].content) > ExcerptLen

\* C10 as stated: after a successful updatePost that changes the content and
\* carries no excerpt, readTime and excerpt are those derived from the new
\* content, as a creation with that content derives them.
C10_UpdateRederives ==
    [][(last'.op = "updatePost" /\ last'.code = 200
          /\ posts'[last'.id].content # posts[last'.id].content
          /\ \E admin \in BOOLEAN, patch \in DerivePatches :
                /\ "excerpt" \notin DOMAIN patch
                /\ UpdatePost([id |-> last'.user, isAdmin |-> admin], last'.id, patch))
       => LET fresh == PreSave(NewPost([title |-> posts'[last'.id].title,
                                        content |-> posts'[last'.id].content],
                                       posts'[last'.id].author))
          IN  /\ posts'[last'.id].readTime = fresh.readTime
              /\ posts'[last'.id].excerpt = fresh.excerpt]_vars

\* Two answered like requests on one document that both loaded it, in the
\* same stored state, before either saved.
Raced(r1, r2) ==
    /\ r1 # r2
    /\ reqs[r1].phase = "done" /\ reqs[r1].code # 404
    /\ reqs[r2].phase = "done" /\ reqs[r2].code # 404
    /\ reqs[r1].kind = reqs[r2].kind
    /\ reqs[r1].id = reqs[r2].id
    /\ reqs[r1].doc = reqs[r2].doc
    /\ r1 \in reqs[r2].raced \/ r2 \in reqs[r1].raced

\* the stored likes of the document a request was about
LikesNow(req) == Collection(req.kind)[req.id].likes

\* C5 as stated: when like requests of two different users race on one
\* document, both users' memberships end up flipped.
C5_RacingLikesCommute ==
    \A r1, r2 \in DOMAIN reqs :
       (Raced(r1, r2) /\ reqs[r1].user # reqs[r2].user) =>
          \A r \in {r1, r2} :
             Member(LikesNow(reqs[r]), reqs[r].user)
                # Member(reqs[r].doc.likes, reqs[r].user)

\* C6: when two like requests of one user race on one document, the user's
\* final membership is the one held by the request whose save landed last;
\* and where the user was in the loaded likes at most once, it is the
\* opposite of the original membership, which two toggles in sequence
\* would have restored.
C6_SameUserRaceLosesUpdate ==
    \A r1, r2 \in DOMAIN reqs :
       (Raced(r1, r2) /\ reqs[r1].user = reqs[r2].user) =>
          /\ lastSave \in {r1, r2}
          /\ Liked(LikesNow(reqs[r1]), reqs[r1].user) = reqs[lastSave].wrote
          /\ Occurrences(reqs[r1].doc.likes, reqs[r1].user) <= 1 =>
                Member(LikesNow(reqs[r1]), reqs[r1].user)
                   # Member(reqs[r1].doc.likes, reqs[r1].user)

\* C6 witness: two raced like requests of one user who was in the likes, once,
\* and is not any more.
C6_Witness ==
    \E r1, r2 \in DOMAIN reqs :
       /\ Raced(r1, r2)
       /\ reqs[r1].user = reqs[r2].user
       /\ Occurrences(reqs[r1].doc.likes, reqs[r1].user) = 1
       /\ ~Member(LikesNow(reqs[r1]), reqs[r1].user)

\* the listings and, for the listing answered last, the entities its path
\* selects (a listPosts without filters selects the published posts)
ListingOps == {"listPosts", "listUserPosts", "listTopLevel", "listReplies"}

Selected ==
    CASE last.op = "listPosts" ->
            {p \in DOMAIN posts : posts[p].status = "published"}
      [] last.op = "listUserPosts" ->
            {p \in DOMAIN posts :
                posts[p].author = last.id /\ posts[p].status = "published"}
      [] last.op = "listTopLevel" ->
            {c \in DOMAIN comments :
                comments[c].post = last.id /\ comments[c].parentComment = NoParent}
      [] last.op = "listReplies" ->
            {c \in DOMAIN comments : comments[c].parentComment = last.id}

\* the least number of pages of l entities that hold t entities
PagesFor(t, l) == CHOOSE n \in 0 .. t : n * l >= t /\ (n = 0 \/ (n - 1) * l < t)

\* C11: a listing asked for page p >= 1 with limit l >= 1 over t selected
\* entities answers current = p, pages = ceil(t / l) and total = t, where t
\* counts every selected entity, on the page or not.
C11_PaginationEnvelope ==
    (last.op \in ListingOps /\ last.code = 200) =>
       \A p \in 1 .. MaxPage, l \in 1 .. DefaultLimit :
          last.query = [page |-> Decimal(p), limit |-> Decimal(l)] =>
             last.pagination =
                [current |-> p,
                 pages |-> PagesFor(Cardinality(Selected), l),
                 total |-> Cardinality(Selected)]

\* C11 witness: the second page, of two, of three top-level comments: one
\* comment on the page, three in total.
C11_Witness ==
    /\ last.op = "listTopLevel"
    /\ last.code = 200
    /\ last.query = [page |-> Decimal(2), limit |-> Decimal(2)]
    /\ Len(last.items) = 1
    /\ last.pagination = [current |-> 2, pages |-> 2, total |-> 3]

\* C12: whatever the query, listPosts and the listing of a user's posts
\* return only posts whose status is published, never a draft.
C12_ListingsPublishedOnly ==
    (last.op \in {"listPosts", "listUserPosts"} /\ last.code = 200) =>
       \A i \in DOMAIN last.items :
          /\ last.items[i] \in DOMAIN posts
          /\ posts[last.items[i]].status = "published"

\* C12 witness: a listing without filters that returns a post while a draft
\* is stored.
C12_Witness ==
    /\ last.op = "listPosts"
    /\ last.code = 200
    /\ last.query = << >>
    /\ Len(last.items) = 1
    /\ \E p \in DOMAIN posts : posts[p].status = "draft"

\* the search text occurs in the text as it stands, letter case aside
Contains(needle, text) ==
    \E at \in 0 .. (Len(text) - Len(needle)) :
       \A i \in DOMAIN needle : Lower(needle[i]) = Lower(text[at + i])

\* the published posts that satisfy every filter of the query, as C20 reads
\* the filters
Wanted(query) ==
    {p \in DOMAIN posts :
        /\ posts[p].status = "published"
        /\ "tag" \in DOMAIN query => Member(posts[p].tags, query.tag)
        /\ "author" \in DOMAIN query => posts[p].author = query.author
        /\ "search" \in DOMAIN query =>
              \/ Contains(query.search, posts[p].title)
              \/ Contains(query.search, posts[p].content)}

\* C20 as stated: listPosts (here without page or limit, so that one page
\* holds everything) returns exactly the published posts that have the
\* tag, have the author and contain the search text, letter case aside, in
\* title or content; the most recent first; total is their number.
C20_ListPostsFilters ==
    (last.op = "listPosts" /\ last.code = 200 /\ "page" \notin DOMAIN last.query) =>
       /\ {last.items[i] : i \in DOMAIN last.items} = Wanted(last.query)
       /\ \A i, j \in DOMAIN last.items : i < j => last.items[i] > last.items[j]
       /\ last.pagination.total = Cardinality(Wanted(last.query))

\* C13 as stated: a comment created with a parentCommentId has a parent that
\* is stored when it is created and that belongs to the same post.
C13_ParentOnSamePost ==
    [][(last'.op = "createComment" /\ last'.code = 201
          /\ comments'[last'.id].parentComment # NoParent)
       => LET parent == comments'[last'.id].parentComment
          IN  /\ parent \in DOMAIN comments
              /\ comments[parent].post = comments'[last'.id].post]_vars

\* C14 as stated, for contents of 1 to 1000 characters: createComment
\* answers 404 and stores nothing when the post is not stored, or a parent is
\* named and not stored; otherwise it stores exactly one new comment, with
\* the given author, post and parent, not edited and without likes.
C14_CreateCommentOutcome ==
    [][\A u \in Users, content \in ReplyInputs, postId \in PostIds,
          parent \in ParentInputs :
          (Len(content) >= 1 /\ Len(content) <= MaxCommentLen
              /\ CreateComment(Plain(u), content, postId, parent))
          => IF postId \notin DOMAIN posts
                \/ (parent # NoParent /\ parent \notin DOMAIN comments)
             THEN last'.code = 404 /\ comments' = comments
             ELSE \E c \in CommentIds \ DOMAIN comments :
                     /\ DOMAIN comments' = DOMAIN comments \cup {c}
                     /\ \A x \in DOMAIN comments : comments'[x] = comments[x]
                     /\ comments'[c].author = u
                     /\ comments'[c].post = postId
                     /\ comments'[c].parentComment = parent
                     /\ comments'[c].isEdited = FALSE
                     /\ comments'[c].likes = << >>]_vars

\* an edit of a comment never takes isEdited back to false
StaysEdited ==
    \A c \in DOMAIN comments \cap DOMAIN comments' :
       comments[c].isEdited => comments'[c].isEdited

\* C15 as stated: an updateComment of a stored comment by anyone but its
\* author, admins included, answers 403 and leaves the comment as it was; a
\* successful one was asked by the author, replaces the content and sets
\* isEdited; isEdited never returns to false.
C15_Original ==
    [][/\ StaysEdited
       /\ \A user \in Requesters, id \in DOMAIN comments, content \in EditInputs :
             UpdateComment(user, id, content) =>
                /\ comments[id].author # user.id =>
                      last'.code = 403 /\ comments' = comments
                /\ last'.code = 200 =>
                      /\ comments[id].author = user.id
                      /\ comments'[id].isEdited
                      /\ comments'[id].content \in {content, Trim(content)}]_vars

\* C15 amended: such an updateComment answers 403 when the content has 1 to
\* 1000 characters and 400 when it has not, and leaves the comment as it
\* was; a successful one was asked by the author, stores the content
\* without the blanks around it, sets isEdited and changes nothing else;
\* isEdited never returns to false.
C15_AuthorOnlyEdit ==
    [][/\ StaysEdited
       /\ \A user \in Requesters, id \in DOMAIN comments, content \in EditInputs :
             UpdateComment(user, id, content) =>
                /\ comments[id].author # user.id =>
                      /\ last'.code = IF Len(content) >= 1 /\ Len(content) <= MaxCommentLen
                                       THEN 403 ELSE 400
                      /\ comments' = comments
                /\ last'.code = 200 =>
                      /\ comments[id].author = user.id
                      /\ comments' = [comments EXCEPT
                                         ![id].content = Trim(content),
                                         ![id].isEdited = TRUE]]_vars

\* C15 witness: a 403 to an update, by someone other than its author, of a
\* comment that its author has edited.
C15_Witness ==
    /\ last.op = "updateComment"
    /\ last.code = 403
    /\ last.id \in DOMAIN comments
    /\ comments[last.id].author # last.user
    /\ comments[last.id].isEdited
    /\ comments[last.id].content = <<"e">>

\* C16: a successful deleteComment of c removes c and the comments whose
\* parentComment is c, and nothing else: every other comment, the replies
\* to those replies included, stays as it was.
C16_DeleteCommentOneLevel ==
    [][(last'.op = "deleteComment" /\ last'.code = 200) =>
          /\ last'.id \in DOMAIN comments
          /\ DOMAIN comments \ DOMAIN comments'
                = {last'.id} \cup {c \in DOMAIN comments :
                                     comments[c].parentComment = last'.id}
          /\ DOMAIN comments' \subseteq DOMAIN comments
          /\ \A c \in DOMAIN comments' : comments'[c] = comments[c]
          /\ posts' = posts]_vars

\* C16 witness: a successful deleteComment that removed a comment and a
\* reply to it, while a reply to that reply is still stored.
C16_Witness ==
    /\ last.op = "deleteComment"
    /\ last.code = 200
    /\ \E r \in CommentIds :
          /\ <<r, last.id>> \in last.removed
          /\ \E g \in DOMAIN comments : comments[g].parentComment = r

\* C17: a deleteComment succeeds exactly when the comment is stored and the
\* requester is its author or an admin; for any other requester of a stored
\* comment it answers 403 and removes nothing.
C17_DeleteCommentAuthorized ==
    [][\A user \in Requesters, id \in CommentIds :
          DeleteComment(user, id) =>
             /\ last'.code = 200
                   <=> /\ id \in DOMAIN comments
                       /\ (comments[id].author = user.id \/ user.isAdmin)
             /\ last'.code = 200 => id \notin DOMAIN comments'
             /\ (id \in DOMAIN comments /\ comments[id].author # user.id
                    /\ ~user.isAdmin)
                => last'.code = 403 /\ comments' = comments]_vars

\* C17 witness: a 403 to the deleteComment, asked by someone other than its
\* author, of a comment that has a reply.
C17_Witness ==
    /\ last.op = "deleteComment"
    /\ last.code = 403
    /\ last.id \in DOMAIN comments
    /\ comments[last.id].author # last.user
    /\ \E r \in DOMAIN comments : comments[r].parentComment = last.id

\* a request body with a field outside the data model's bounds: a title of
\* 1 to 200 characters, a post content of at least 10, a status of draft or
\* published
OutOfBounds(body) ==
    \/ "title" \in DOMAIN body /\ (Len(body.title) < 1 \/ Len(body.title) > MaxTitleLen)
    \/ "content" \in DOMAIN body /\ Len(body.content) < MinContentLen
    \/ "status" \in DOMAIN body /\ body.status \notin {"draft", "published"}

\* the answer is a validation error and the store is as it was
Rejected == last'.code = 400 /\ posts' = posts /\ comments' = comments

\* C18 as stated: a createPost, updatePost, createComment or updateComment
\* with a field outside the data model's bounds (a comment content has 1 to
\* 1000 characters) is answered 400 and leaves the store as it was.
C18_InvalidFieldsRejected ==
    [][/\ \A u \in Users, body \in ValidateBodies :
             (OutOfBounds(body) /\ CreatePost(Plain(u), body)) => Rejected
       /\ \A user \in Requesters, id \in PostIds, patch \in ValidatePatches :
             (OutOfBounds(patch) /\ UpdatePost(user, id, patch)) => Rejected
       /\ \A content \in ValidateComments, postId \in PostIds :
             ((Len(content) < 1 \/ Len(content) > MaxCommentLen)
                 /\ CreateComment(Plain(1), content, postId, NoParent)) => Rejected
       /\ \A u \in Users, id \in CommentIds, content \in ValidateComments :
             ((Len(content) < 1 \/ Len(content) > MaxCommentLen)
                 /\ UpdateComment(Plain(u), id, content)) => Rejected]_vars

\* the answer is not found and the store is as it was
Missed == last'.code = 404 /\ posts' = posts /\ comments' = comments

\* C19 as stated, for updates whose body passes the route's validation: an
\* update, delete or like of a post or comment whose id resolves to no
\* stored entity answers 404, whoever asks, and leaves the store as it was.
C19_MissingIsNotFound ==
    [][\A user \in Requesters :
          /\ \A id \in PostTargets \ DOMAIN posts :
                /\ UpdatePost(user, id, [title |-> Foo]) => Missed
                /\ DeletePost(user, id) => Missed
                /\ LikePost(Plain(user.id), id) => Missed
          /\ \A id \in CommentTargets \ DOMAIN comments :
                /\ UpdateComment(user, id, <<"e", "d">>) => Missed
                /\ DeleteComment(user, id) => Missed
                /\ LikeComment(Plain(user.id), id) => Missed]_vars

\* the entities of a set created after c, and those created before it
Newer(set, c) == {x \in set : x > c}
Older(set, c) == {x \in set : x < c}

\* C21: listTopLevel(postId, p, l) returns only comments of the post that
\* reply to nothing, newest first: exactly those that have at least
\* (p-1)*l and at most p*l-1 newer ones among the post's top-level comments.
C21_TopLevelPage ==
    (last.op = "listTopLevel" /\ last.code = 200) =>
       \A p \in 1 .. MaxPage, l \in 1 .. DefaultLimit :
          last.query = [page |-> Decimal(p), limit |-> Decimal(l)] =>
             LET top == {c \in DOMAIN comments :
                           /\ comments[c].post = last.id
                           /\ comments[c].parentComment = NoParent}
             IN  /\ {last.items[i] : i \in DOMAIN last.items}
                       = {c \in top :
                            /\ Cardinality(Newer(top, c)) >= (p - 1) * l
                            /\ Cardinality(Newer(top, c)) <= p * l - 1}
                 /\ \A i, j \in DOMAIN last.items :
                       i < j => last.items[i] > last.items[j]

\* C21 witness: the second page, of one comment each, of a post with two
\* top-level comments and a reply: the older top-level comment.
C21_Witness ==
    /\ last.op = "listTopLevel"
    /\ last.code = 200
    /\ last.query = [page |-> Decimal(2), limit |-> Decimal(1)]
    /\ Len(last.items) = 1
    /\ \E c \in DOMAIN comments :
          /\ c > last.items[1]
          /\ comments[c].post = last.id
          /\ comments[c].parentComment = NoParent
    /\ \E r \in DOMAIN comments :
          comments[r].post = last.id /\ comments[r].parentComment # NoParent

\* C22: listReplies(parentId, p, l) returns only comments that reply to
\* parentId itself, oldest first (those of the page), and total is the
\* number of comments that reply to parentId.
C22_DirectRepliesOldestFirst ==
    (last.op = "listReplies" /\ last.code = 200) =>
       \A p \in 1 .. MaxPage, l \in 1 .. DefaultLimit :
          last.query = [page |-> Decimal(p), limit |-> Decimal(l)] =>
             LET direct == {c \in DOMAIN comments :
                              comments[c].parentComment = last.id}
             IN  /\ {last.items[i] : i \in DOMAIN last.items}
                       = {c \in direct :
                            /\ Cardinality(Older(direct, c)) >= (p - 1) * l
                            /\ Cardinality(Older(direct, c)) <= p * l - 1}
                 /\ \A i, j \in DOMAIN last.items :
                       i < j => last.items[i] < last.items[j]
                 /\ last.pagination.total = Cardinality(direct)

\* C22 witness: the replies to a comment that has a reply and, through it,
\* a reply to that reply: only the first is listed.
C22_Witness ==
    /\ last.op = "listReplies"
    /\ last.code = 200
    /\ last.query = [page |-> Decimal(1), limit |-> Decimal(2)]
    /\ Len(last.items) = 1
    /\ last.pagination.total = 1
    /\ \E g \in DOMAIN comments : comments[g].parentComment = last.items[1]

\* C23 as stated: in every reachable state, those reached by a createComment
\* interleaved with a deletePost of the same post included, the post of
\* every stored comment is a stored post.
C23_CommentsHavePosts ==
    \A c \in DOMAIN comments : comments[c].post \in DOMAIN posts

\* C24 as stated: after any sequence of createComment, deleteComment and
\* deletePost, every stored comment that replies to a comment replies to a
\* stored one.
C24_RepliesHaveParents ==
    \A c \in DOMAIN comments :
       comments[c].parentComment # NoParent =>
          comments[c].parentComment \in DOMAIN comments

\* C25 as stated: whatever the body, a successful updatePost leaves the
\* post's author and likes as they were.
C25_UpdateKeepsOwnerAndLikes ==
    [][(last'.op = "updatePost" /\ last'.code = 200) =>
          /\ posts'[last'.id].author = posts[last'.id].author
          /\ posts'[last'.id].likes = posts[last'.id].likes]_vars

\* C26 as stated: in the client, whatever the order in which the responses
\* arrive, currentUser is set only while a token is stored, and the failure
\* of a checkAuth sent before a login succeeded removes neither the token
\* nor currentUser.
C26_ClientAuthConsistent ==
    [][/\ currentUser' # 0 => token' # 0
       /\ \A req \in pending :
             (req.kind = "checkAuth" /\ req.overtaken /\ CheckAuthDone(req, FALSE))
             => token' = token /\ currentUser' = currentUser]_vars

\* C27 as stated: a request is sent only 500 ms after the last input event,
\* for the text of the box, and once per such event, so that input events
\* within 500 ms of each other send one request; and when no request is in
\* flight and the most recent one has succeeded, the explore list shows the
\* posts of the most recent request.
C27_SearchShowsLatest ==
    /\ \A i \in DOMAIN issued :
          /\ issued[i].at - issued[i].typedAt >= DebounceMs
          /\ \A j \in DOMAIN issued : i # j => issued[i].typedAt # issued[j].typedAt
    /\ (issued # << >> /\ issued[Len(issued)].done = "ok"
          /\ \A req \in pending : req.kind # "explore")
       => explorePosts = Len(issued)

====
